---- MODULE Spec2Model ----
(***************************************************************************)
(* Model of performance_quyca: the URL generator (api_expert/build_url.py),*)
(* the latency sampler (api_expert/response_time.py) and the offline       *)
(* reporter (report.py).                                                   *)
(*                                                                         *)
(* Python strings are TLA+ strings; TLC evaluates Len, SubSeq, Head, Tail  *)
(* and \o on them character by character.                                  *)
(***************************************************************************)
EXTENDS Integers, Sequences, FiniteSets, TLC

VARIABLES
    templates,  \* the template list expand_endpoints iterates (RAW_ENDPOINTS)
    gi,         \* expand_endpoints: number of templates already expanded
    urls,       \* expand_endpoints: the local list `urls`
    gpc,        \* expand_endpoints: "loop" | "returned"
    repetitions,\* measure_response_time: the parameter `repetitions`
    mi,         \* measure_response_time: iterations of the loop completed
    times,      \* measure_response_time: the local list `times`
    attempts,   \* history: the outcome of every requests.get made, in order
    mret,       \* measure_response_time: the returned value
    mpc,        \* measure_response_time: "loop" | "returned" | "raised"
    runs,       \* number of sampler runs started so far
    rpc,        \* sampler __main__: "idle" | "loop"
    ui,         \* sampler __main__: URLs of the current run already measured
    results,    \* sampler __main__: the list `results`
    succ,       \* history: per measured URL, did some attempt get a response
    answers,    \* history: per URL measured by the run in progress, the
                \* outcomes of its requests
    written,    \* history: every record passed to writer.writerows, in order
    file,       \* api_response_times.csv: [exists, lines]
    ppc,        \* reporter main: "start" | "loaded" | ... | "failed"
    df,         \* reporter: the rows of the dataframe
    stats,      \* reporter: basic_statistics(df), the fields the report reads
    endpoint_stats, \* reporter: endpoint_analysis(df), by base endpoint
    keyword_stats,  \* reporter: keyword_analysis(df), by keyword
    slow_endpoints, \* generate_report: the index of slow_endpoints
    slow_keywords,  \* generate_report: the index of slow_keywords
    cpath,      \* categorize_endpoint: the argument
    ccat        \* categorize_endpoint: the returned category, <<>> before

genVars == <<templates, gi, urls, gpc>>
measVars == <<repetitions, mi, times, attempts, mret, mpc>>
runVars == <<runs, rpc, ui, results, succ, answers, written, file>>
repVars == <<ppc, df, stats, endpoint_stats, keyword_stats, slow_endpoints, slow_keywords>>
catVars == <<cpath, ccat>>
vars == <<genVars, measVars, runVars, repVars, catVars>>

-----------------------------------------------------------------------------
(* Python str primitives *)

Min(a, b) == IF a < b THEN a ELSE b

\* `sub in s`
Contains(s, sub) ==
    \E i \in 1..(Len(s) - Len(sub) + 1) : SubSeq(s, i, i + Len(sub) - 1) = sub

\* s.startswith(p)
StartsWith(s, p) == Len(s) >= Len(p) /\ SubSeq(s, 1, Len(p)) = p

\* s.replace(old, new): every non-overlapping occurrence, left to right
RECURSIVE Replace(_, _, _)
Replace(s, old, new) ==
    IF Len(s) < Len(old) THEN s
    ELSE IF SubSeq(s, 1, Len(old)) = old
         THEN new \o Replace(SubSeq(s, Len(old) + 1, Len(s)), old, new)
         ELSE SubSeq(s, 1, 1) \o Replace(Tail(s), old, new)

\* s.split(sep)[0]
RECURSIVE SplitFirst(_, _)
SplitFirst(s, sep) ==
    IF Len(s) < Len(sep) THEN s
    ELSE IF SubSeq(s, 1, Len(sep)) = sep THEN ""
         ELSE SubSeq(s, 1, 1) \o SplitFirst(Tail(s), sep)

\* the text after the first occurrence of sep
RECURSIVE AfterFirst(_, _)
AfterFirst(s, sep) ==
    IF Len(s) < Len(sep) THEN ""
    ELSE IF SubSeq(s, 1, Len(sep)) = sep THEN SubSeq(s, Len(sep) + 1, Len(s))
         ELSE AfterFirst(Tail(s), sep)

\* s.count(ch)
RECURSIVE Count(_, _)
Count(s, ch) ==
    IF Len(s) < Len(ch) THEN 0
    ELSE IF SubSeq(s, 1, Len(ch)) = ch
         THEN 1 + Count(SubSeq(s, Len(ch) + 1, Len(s)), ch)
         ELSE Count(Tail(s), ch)

-----------------------------------------------------------------------------
(* api_expert/build_url.py *)

BASE_URL == "http://localhost:8010"

RAW_ENDPOINTS == <<
    "/api/affiliation/<affiliation_type>/<affiliation_id>/research/products",
    "/api/apc/affiliation/<affiliation_id>",
    "/api/apc/person/<person_id>",
    "/api/apc/search",
    "/api/person/<person_id>",
    "/api/person/<person_id>/research/products",
    "/api/person/<person_id>/research/news",
    "/api/search/affiliations/<affiliation_type>",
    "/api/search/person",
    "/api/search/works" >>

AFFILIATION_IDS == <<
    "01p9nak43", "04j43p132", "027nnzv91", "059d6yn51", "0374c0d66",
    "006703856", "057jm7w82", "05sq6ae13", "05w5shm69", "03ag0xf08" >>

PERSON_IDS == <<
    "A5105622035", "A5112693177", "0000000347185957", "A5113454003",
    "A5092999615", "0000000294031566", "A5106325669", "0001513368",
    "A5041111652", "Gwak4WYAAAAJ'" >>

AFFILIATION_TYPES == << "institution" >>

KEYWORDS ==
    ("/api/search/affiliations" :> <<"university", "andes", "antioquia", "open">>) @@
    ("/api/search/person" :> <<"esteban", "alejandra", "jaime", "garcia">>) @@
    ("/api/search/works" :> <<"ciencia", "data", "ai", "salud">>) @@
    ("/api/apc/search" :> <<"500", "1000", "1500", "2000">>)

\* the slice bound of AFFILIATION_IDS[:3] and PERSON_IDS[:3]
SampleLimit == 3

\* the slice forgotten
FirstSamplesAll(lst) == lst

\* lst[:3]
FirstSamples(lst) == SubSeq(lst, 1, Min(SampleLimit, Len(lst)))

\* itertools.product(A, B) as a list: A is the outer loop, B the inner one
Product(A, B) ==
    [j \in 1..(Len(A) * Len(B)) |->
        << A[((j - 1) \div Len(B)) + 1], B[((j - 1) % Len(B)) + 1] >>]

\* the query appended as a further parameter
KeywordUrlAmp(endpoint, k) ==
    BASE_URL \o endpoint \o "&keywords=" \o KEYWORDS[endpoint][k]

\* keyword = random.choice(KEYWORDS[endpoint]) with draw k, and the URL built
\* from it
KeywordUrl(endpoint, k) ==
    BASE_URL \o endpoint \o "?keywords=" \o KEYWORDS[endpoint][k]

\* One iteration of the loop of expand_endpoints: the URLs appended for
\* `endpoint`; k is the index random.choice draws (used by one branch only).
ExpandOne(endpoint, k) ==
    IF Contains(endpoint, "<affiliation_type>") /\ Contains(endpoint, "<affiliation_id>")
    THEN LET pr == Product(AFFILIATION_TYPES, FirstSamples(AFFILIATION_IDS))
         IN  [j \in 1..Len(pr) |->
                BASE_URL \o Replace(Replace(endpoint, "<affiliation_type>", pr[j][1]),
                                    "<affiliation_id>", pr[j][2])]
    ELSE IF Contains(endpoint, "<affiliation_id>")
    THEN LET ids == FirstSamples(AFFILIATION_IDS)
         IN  [j \in 1..Len(ids) |->
                BASE_URL \o Replace(endpoint, "<affiliation_id>", ids[j])]
    ELSE IF Contains(endpoint, "<person_id>")
    THEN LET ids == FirstSamples(PERSON_IDS)
         IN  [j \in 1..Len(ids) |->
                BASE_URL \o Replace(endpoint, "<person_id>", ids[j])]
    ELSE IF Contains(endpoint, "<affiliation_type>")
    THEN [j \in 1..Len(AFFILIATION_TYPES) |->
                BASE_URL \o Replace(endpoint, "<affiliation_type>", AFFILIATION_TYPES[j])]
    ELSE IF endpoint \in DOMAIN KEYWORDS
    THEN << KeywordUrl(endpoint, k) >>
    ELSE << BASE_URL \o endpoint >>

\* the indices random.choice can return for `endpoint`
ChoicesFor(endpoint) ==
    IF endpoint \in DOMAIN KEYWORDS THEN 1..Len(KEYWORDS[endpoint]) ELSE {1}

\* expand_endpoints() as a whole, for the callers that use its result:
\* ks[i] is the draw of random.choice in iteration i
RECURSIVE ExpandAll(_, _)
ExpandAll(tpls, ks) ==
    IF tpls = <<>> THEN <<>>
    ELSE ExpandOne(Head(tpls), Head(ks)) \o ExpandAll(Tail(tpls), Tail(ks))

-----------------------------------------------------------------------------
(* The generator run on a template list *)

\* templates that exercise the two placeholder-free branches beside the
\* declared ones: a key of KEYWORDS that RAW_ENDPOINTS does not list, and a
\* plain path
ExtraTemplates == << "/api/search/affiliations", "/api/apc" >>

TemplatePool ==
    {RAW_ENDPOINTS[i] : i \in 1..Len(RAW_ENDPOINTS)} \cup
    {ExtraTemplates[i] : i \in 1..Len(ExtraTemplates)}

MaxTemplates == 2

TemplateLists ==
    {RAW_ENDPOINTS} \cup
    UNION {[1..n -> TemplatePool] : n \in 1..MaxTemplates}

GenInit ==
    /\ templates \in TemplateLists
    /\ gi = 0
    /\ urls = <<>>
    /\ gpc = "loop"

\* the URLs of a template inserted at the front of the list
ExpandStepPrepend ==
    /\ gpc = "loop"
    /\ gi < Len(templates)
    /\ \E k \in ChoicesFor(templates[gi + 1]) :
          urls' = ExpandOne(templates[gi + 1], k) \o urls
    /\ gi' = gi + 1
    /\ UNCHANGED <<templates, gpc, measVars, runVars, repVars, catVars>>

\* for endpoint in RAW_ENDPOINTS: ... urls.append(...)
ExpandStep ==
    /\ gpc = "loop"
    /\ gi < Len(templates)
    /\ \E k \in ChoicesFor(templates[gi + 1]) :
          urls' = urls \o ExpandOne(templates[gi + 1], k)
    /\ gi' = gi + 1
    /\ UNCHANGED <<templates, gpc, measVars, runVars, repVars, catVars>>

\* return urls
GenReturn ==
    /\ gpc = "loop"
    /\ gi = Len(templates)
    /\ gpc' = "returned"
    /\ UNCHANGED <<templates, gi, urls, measVars, runVars, repVars, catVars>>

-----------------------------------------------------------------------------
(* api_expert/response_time.py: measure_response_time *)

\* Elapsed times are whole microseconds; the mean of a list is the exact
\* fraction <<numerator, denominator>> in lowest terms (seconds * 10^6).
Durations == {1200, 2500}

\* What one requests.get(url, timeout=30) can do: return a response with
\* some status code after `elapsed`, raise a subclass of
\* requests.exceptions.RequestException (Timeout, ConnectionError, or a
\* non-network one such as InvalidURL), or raise an exception outside that
\* hierarchy. requests.get does not raise on an error status.
RequestExceptions == {"Timeout", "ConnectionError", "InvalidURL"}

\* response.status_code: a success, a client error and a server error
StatusCodes == {200, 404, 500}

Outcomes ==
    [kind : {"response"}, elapsed : Durations, status : StatusCodes] \cup
    [kind : RequestExceptions \cup {"NonRequestException"}, elapsed : {0},
     status : {0}]

None == <<0, 0>>

RECURSIVE GCD(_, _)
GCD(a, b) == IF b = 0 THEN a ELSE GCD(b, a % b)

RECURSIVE Sum(_)
Sum(s) == IF s = <<>> THEN 0 ELSE Head(s) + Sum(Tail(s))

\* sum(times) / len(times)
Mean(ts) ==
    LET g == GCD(Sum(ts), Len(ts))
    IN  << Sum(ts) \div g, Len(ts) \div g >>

\* an except clause that names one subclass only
CaughtOnlyTimeout(o) == o.kind = "Timeout"

\* the except clause: except requests.exceptions.RequestException
Caught(o) == o.kind \in RequestExceptions

\* the append moved out of the try: a failed attempt counts with time 0
TryGetAlways(ts, o) == Append(ts, o.elapsed)

\* response.raise_for_status() called before the append
TryGetOkOnly(ts, o) ==
    IF o.kind = "response" /\ o.status < 400 THEN Append(ts, o.elapsed) ELSE ts

\* the body of the try: `times` after one attempt with outcome o; the status
\* code of the response is printed and nothing else
TryGet(ts, o) == IF o.kind = "response" THEN Append(ts, o.elapsed) ELSE ts

\* if times: return sum(times) / len(times); return None
MeanOrNone(ts) == IF ts # <<>> THEN Mean(ts) ELSE None

MaxReps == 3

MeasInit ==
    /\ repetitions \in 0..MaxReps
    /\ mi = 0
    /\ times = <<>>
    /\ attempts = <<>>
    /\ mret = None
    /\ mpc = "loop"

\* one iteration of `for i in range(repetitions)` whose request returns or
\* raises an exception the except clause catches
Attempt ==
    /\ mpc = "loop"
    /\ mi < repetitions
    /\ \E o \in Outcomes :
          /\ o.kind = "response" \/ Caught(o)
          /\ attempts' = Append(attempts, o)
          /\ times' = TryGet(times, o)
    /\ mi' = mi + 1
    /\ UNCHANGED <<repetitions, mret, mpc, genVars, runVars, repVars, catVars>>

\* an iteration whose request raises an exception the except clause does not
\* name: it leaves measure_response_time
AttemptRaises ==
    /\ mpc = "loop"
    /\ mi < repetitions
    /\ \E o \in Outcomes :
          /\ ~(o.kind = "response" \/ Caught(o))
          /\ attempts' = Append(attempts, o)
    /\ mpc' = "raised"
    /\ UNCHANGED <<repetitions, mi, times, mret, genVars, runVars, repVars, catVars>>

\* the statements after the loop
MeasReturn ==
    /\ mpc = "loop"
    /\ mi = repetitions
    /\ mret' = MeanOrNone(times)
    /\ mpc' = "returned"
    /\ UNCHANGED <<repetitions, mi, times, attempts, genVars, runVars, repVars, catVars>>

\* measure_response_time(url) run to its end on the outcomes `outs` of its
\* successive requests (the URL itself is only passed on to requests.get)
RECURSIVE TimesAfter(_, _)
TimesAfter(ts, outs) ==
    IF outs = <<>> THEN ts ELSE TimesAfter(TryGet(ts, Head(outs)), Tail(outs))

Raises(outs) ==
    \E i \in 1..Len(outs) : ~(outs[i].kind = "response" \/ Caught(outs[i]))

measure_response_time(outs) == MeanOrNone(TimesAfter(<<>>, outs))

-----------------------------------------------------------------------------
(* Text of numbers and of CSV lines *)

Digits == "0123456789"

DigitStr(d) == SubSeq(Digits, d + 1, d + 1)

\* str(n) for n >= 0
RECURSIVE IntStr(_)
IntStr(n) == IF n < 10 THEN DigitStr(n) ELSE IntStr(n \div 10) \o DigitStr(n % 10)

\* The milliseconds f"{x:.3f}" can print for x = <<p, q>> microseconds: the
\* nearest one; a value half way between two is decided by the binary
\* floating-point value of x, either way.
MillisChoices(x) ==
    LET lo == x[1] \div (1000 * x[2])
        r  == x[1] - 1000 * x[2] * lo
    IN  IF 2 * r < 1000 * x[2] THEN {lo}
        ELSE IF 2 * r > 1000 * x[2] THEN {lo + 1}
        ELSE {lo, lo + 1}

\* the text of f"{x:.3f}" for a value of ms milliseconds
Format3f(ms) ==
    IntStr(ms \div 1000) \o "." \o DigitStr((ms \div 100) % 10)
        \o DigitStr((ms \div 10) % 10) \o DigitStr(ms % 10)

Quote == "\""

\* csv.writer, QUOTE_MINIMAL: a field holding the delimiter or the quote
\* character is quoted, its quotes doubled
CsvField(f) ==
    IF Contains(f, ",") \/ Contains(f, Quote)
    THEN Quote \o Replace(f, Quote, Quote \o Quote) \o Quote
    ELSE f

RECURSIVE CsvLine(_)
CsvLine(fields) ==
    IF Len(fields) = 1 THEN CsvField(fields[1])
    ELSE CsvField(Head(fields)) \o "," \o CsvLine(Tail(fields))

\* the reader: <<field, rest>> of a quoted field whose opening quote is read
RECURSIVE ReadQuoted(_)
ReadQuoted(s) ==
    IF s = "" THEN << "", "" >>
    ELSE IF StartsWith(s, Quote \o Quote)
         THEN LET r == ReadQuoted(SubSeq(s, 3, Len(s))) IN << Quote \o r[1], r[2] >>
    ELSE IF StartsWith(s, Quote) THEN << "", Tail(s) >>
    ELSE LET r == ReadQuoted(Tail(s)) IN << SubSeq(s, 1, 1) \o r[1], r[2] >>

RECURSIVE ParseCsvLine(_)
ParseCsvLine(s) ==
    IF StartsWith(s, Quote)
    THEN LET r == ReadQuoted(Tail(s))
         IN  IF r[2] = "" THEN << r[1] >> ELSE << r[1] >> \o ParseCsvLine(Tail(r[2]))
    ELSE IF Contains(s, ",")
         THEN << SplitFirst(s, ",") >> \o ParseCsvLine(AfterFirst(s, ","))
         ELSE << s >>

-----------------------------------------------------------------------------
(* api_expert/response_time.py: __main__ *)

\* the default of the parameter `repetitions`
DefaultRepetitions == 3

\* What the server does to the requests of one call of measure_response_time
\* in a run: two of three requests answered (their mean, 2.5 ms, is a tie of
\* the .3f rounding), with status 200 or with error statuses only, none
\* answered, and a request that raises outside the RequestException
\* hierarchy.
Resp(d, s) == [kind |-> "response", elapsed |-> d, status |-> s]
Exc(k) == [kind |-> k, elapsed |-> 0, status |-> 0]

ServerBehaviours == {
    << Resp(1200, 200), Exc("Timeout"), Resp(3800, 200) >>,
    << Resp(1200, 404), Exc("Timeout"), Resp(3800, 500) >>,
    << Exc("Timeout"), Exc("ConnectionError"), Exc("InvalidURL") >>,
    << Exc("ConnectionError"), Resp(2500, 200), Exc("NonRequestException") >> }

MaxRuns == 2

HeaderLine == CsvLine(<< "url", "average_time" >>)

NoFile == [exists |-> FALSE, lines |-> <<>>]

\* the template lists of the sampler runs, one template each: a person-id
\* template, a keyword-bearing one, an affiliation-type one and a plain one
RunTemplateLists == {
    << "/api/apc/person/<person_id>" >>,
    << "/api/search/person" >>,
    << "/api/search/affiliations/<affiliation_type>" >>,
    << "/api/apc" >> }

RunInit ==
    /\ templates \in RunTemplateLists
    /\ urls = <<>>
    /\ runs = 0
    /\ rpc = "idle"
    /\ ui = 0
    /\ results = <<>>
    /\ succ = <<>>
    /\ answers = <<>>
    /\ written = <<>>
    /\ file = NoFile

\* urls = expand_endpoints(); results = []
StartRun ==
    /\ rpc = "idle"
    /\ ppc = "start"
    /\ runs < MaxRuns
    /\ \E ks \in [1..Len(templates) -> 1..4] :
          /\ \A i \in 1..Len(templates) : ks[i] \in ChoicesFor(templates[i])
          /\ urls' = ExpandAll(templates, ks)
    /\ runs' = runs + 1
    /\ rpc' = "loop"
    /\ ui' = 0
    /\ results' = <<>>
    /\ succ' = <<>>
    /\ answers' = <<>>
    /\ UNCHANGED <<templates, written, file, gi, gpc, measVars, repVars, catVars>>

\* the `is not None` test dropped
CollectAlways(res, endpoint, r) ==
    Append(res, [url |-> endpoint, average_time |-> r])

\* the record the loop body appends for `endpoint` when the call returns r
Collect(res, endpoint, r) ==
    IF r # None THEN Append(res, [url |-> endpoint, average_time |-> r]) ELSE res

\* one iteration of `for endpoint in urls` whose call returns
MeasureUrl ==
    /\ rpc = "loop"
    /\ ui < Len(urls)
    /\ \E outs \in ServerBehaviours :
          /\ Len(outs) = DefaultRepetitions
          /\ ~Raises(outs)
          /\ results' = Collect(results, urls[ui + 1], measure_response_time(outs))
          /\ succ' = Append(succ, \E i \in 1..Len(outs) : outs[i].kind = "response")
          /\ answers' = Append(answers, outs)
    /\ ui' = ui + 1
    /\ UNCHANGED <<templates, urls, runs, rpc, written, file, gi, gpc, measVars, repVars, catVars>>

\* an iteration whose call raises: the traceback ends the process before the
\* file is opened
MeasureUrlRaises ==
    /\ rpc = "loop"
    /\ ui < Len(urls)
    /\ \E outs \in ServerBehaviours : Len(outs) = DefaultRepetitions /\ Raises(outs)
    /\ rpc' = "idle"
    /\ UNCHANGED <<templates, urls, runs, ui, results, succ, answers, written, file, gi, gpc, measVars, repVars, catVars>>

\* the lines writer.writerows can write for the records rs
RECURSIVE FormattedRows(_)
FormattedRows(rs) ==
    IF rs = <<>> THEN { <<>> }
    ELSE { << CsvLine(<< Head(rs).url, Format3f(ms) >>) >> \o rest :
             ms \in MillisChoices(Head(rs).average_time),
             rest \in FormattedRows(Tail(rs)) }

\* the header written by every run
AppendCsvAlwaysHeader(f, rows) ==
    [exists |-> TRUE, lines |-> f.lines \o << HeaderLine >> \o rows]

\* file_exists = os.path.isfile(...); open(..., "a"); writeheader() if not
\* file_exists; writerows(...)
AppendCsv(f, rows) ==
    [exists |-> TRUE,
     lines  |-> f.lines \o (IF ~f.exists THEN << HeaderLine >> ELSE <<>>) \o rows]

WriteCsv ==
    /\ rpc = "loop"
    /\ ui = Len(urls)
    /\ \E rows \in FormattedRows(results) : file' = AppendCsv(file, rows)
    /\ written' = written \o results
    /\ rpc' = "idle"
    /\ answers' = <<>>
    /\ UNCHANGED <<templates, urls, runs, ui, results, succ, gi, gpc, measVars, repVars, catVars>>

-----------------------------------------------------------------------------
(* report.py: load_and_clean_data and the functions it applies *)

\* Numbers of the reporter are fixed-point: a value x of a column is the
\* integer x * 10^4, so that round(4) yields an integer.
Scale == 10 * 1000

DigitVal(c) == CHOOSE d \in 0..9 : DigitStr(d) = c

RECURSIVE ParseInt(_)
ParseInt(s) ==
    IF s = "" THEN 0
    ELSE ParseInt(SubSeq(s, 1, Len(s) - 1)) * 10 + DigitVal(SubSeq(s, Len(s), Len(s)))

\* read_csv's float of a decimal text with at most four decimals
ParseDecimal(s) ==
    ParseInt(SplitFirst(s, ".")) * Scale
        + ParseInt(SubSeq(AfterFirst(s, ".") \o "0000", 1, 4))

\* the split made on the parameter separator
extract_base_endpoint_amp(endpoint) == SplitFirst(endpoint, "&")

\* endpoint.split('?')[0]
extract_base_endpoint(endpoint) == SplitFirst(endpoint, "?")

\* the four substrings tested in the order search, person, affiliation, apc
categorize_by_priority(endpoint) ==
    IF Contains(endpoint, "search") THEN "search"
    ELSE IF Contains(endpoint, "person") THEN "person"
    ELSE IF Contains(endpoint, "affiliation") THEN "affiliation"
    ELSE IF Contains(endpoint, "apc") THEN "apc"
    ELSE "other"

categorize_endpoint(endpoint) ==
    IF Contains(endpoint, "search") THEN "search"
    ELSE IF Contains(endpoint, "person") /\ ~Contains(endpoint, "apc") THEN "person"
    ELSE IF Contains(endpoint, "affiliation") /\ ~Contains(endpoint, "apc") THEN "affiliation"
    ELSE IF Contains(endpoint, "apc") THEN "apc"
    ELSE "other"

\* None is <<>>, a keyword k is <<k>>
extract_keyword(endpoint) ==
    IF Contains(endpoint, "keywords=")
    THEN << SplitFirst(SplitFirst(AfterFirst(endpoint, "keywords="), "keywords="), "&") >>
    ELSE <<>>

\* the column of the header `columns` named `name`
ColumnOf(columns, name) == CHOOSE i \in 1..Len(columns) : columns[i] = name

\* one row of the dataframe load_and_clean_data returns
CleanRow(url, average_time) ==
    LET clean == Replace(url, "http://localhost:8010/api/", "")
    IN  [url              |-> url,
         average_time     |-> average_time,
         clean_endpoint   |-> clean,
         response_time_ms |-> average_time * 1000,
         base_endpoint    |-> extract_base_endpoint(clean),
         endpoint_type    |-> categorize_endpoint(clean),
         has_parameters   |-> Contains(clean, "?"),
         keyword          |-> extract_keyword(clean),
         endpoint_depth   |-> Count(clean, "/") + 1]

\* pd.read_csv(file_path) and the derived columns: the first line names the
\* columns, every other line is a row
load_and_clean_data(lines) ==
    LET columns == ParseCsvLine(lines[1])
    IN  [k \in 1..(Len(lines) - 1) |->
            LET fields == ParseCsvLine(lines[k + 1])
            IN  CleanRow(fields[ColumnOf(columns, "url")],
                         ParseDecimal(fields[ColumnOf(columns, "average_time")]))]

RepInit ==
    /\ ppc = "start"
    /\ df = <<>>
    /\ stats = [total |-> 0, count |-> 0]
    /\ endpoint_stats = <<>>
    /\ keyword_stats = <<>>
    /\ slow_endpoints = {}
    /\ slow_keywords = {}

\* main: df = load_and_clean_data('api_response_times.csv'); a missing file
\* makes read_csv raise
LoadData ==
    /\ ppc = "start"
    /\ rpc = "idle"
    /\ IF file.exists
       THEN df' = load_and_clean_data(file.lines) /\ ppc' = "loaded"
       ELSE df' = df /\ ppc' = "failed"
    /\ UNCHANGED <<stats, endpoint_stats, keyword_stats, slow_endpoints, slow_keywords>>
    /\ UNCHANGED <<genVars, measVars, runVars, catVars>>

-----------------------------------------------------------------------------
(* report.py: the statistics main computes and generate_report *)

\* the sum of column col over the rows of d whose column key is g
GroupSum(d, key, g, col) ==
    Sum([k \in 1..Len(d) |-> IF d[k][key] = g THEN d[k][col] ELSE 0])

GroupCount(d, key, g) == Cardinality({k \in 1..Len(d) : d[k][key] = g})

\* .round(4) of the mean total / n of fixed-point values: the nearest
\* integer; a mean half way between two is decided by its binary
\* floating-point value, either way
RoundChoices(total, n) ==
    LET lo == total \div n
        r  == total - n * lo
    IN  IF 2 * r < n THEN {lo} ELSE IF 2 * r > n THEN {lo + 1} ELSE {lo, lo + 1}

\* the rounded means of column col per group, one table for each way the
\* half-way means can fall
RoundedMeans(d, key, groups, col) ==
    LET ties == {g \in groups :
                    Cardinality(RoundChoices(GroupSum(d, key, g, col),
                                             GroupCount(d, key, g))) = 2}
    IN  { [g \in groups |->
              LET total == GroupSum(d, key, g, col)
                  n     == GroupCount(d, key, g)
              IN  IF g \in ties
                  THEN (IF g \in ups THEN (total \div n) + 1 ELSE total \div n)
                  ELSE CHOOSE v \in RoundChoices(total, n) : TRUE]
          : ups \in SUBSET ties }

\* basic_statistics: avg_response_time is total / count
basic_statistics(d) ==
    [total |-> Sum([k \in 1..Len(d) |-> d[k].average_time]), count |-> Len(d)]

\* endpoint_analysis: per base endpoint, call_count and the rounded means
\* avg_time and avg_time_ms. The table is kept without its row order: the
\* order is that of avg_time, descending, rows of equal avg_time in an order
\* the sort does not fix.
endpoint_analysis(d) ==
    LET groups == {d[k].base_endpoint : k \in 1..Len(d)}
    IN  { [g \in groups |->
              [call_count  |-> GroupCount(d, "base_endpoint", g),
               avg_time    |-> a[g],
               avg_time_ms |-> m[g]]]
          : a \in RoundedMeans(d, "base_endpoint", groups, "average_time"),
            m \in RoundedMeans(d, "base_endpoint", groups, "response_time_ms") }

\* keyword_analysis: the same per keyword, over the rows that have one; an
\* empty table when no row has
keyword_analysis(d) ==
    LET groups == {d[k].keyword : k \in 1..Len(d)} \ { <<>> }
    IN  { [g \in groups |->
              [search_count |-> GroupCount(d, "keyword", g),
               avg_time     |-> a[g],
               avg_time_ms  |-> m[g]]]
          : a \in RoundedMeans(d, "keyword", groups, "average_time"),
            m \in RoundedMeans(d, "keyword", groups, "response_time_ms") }

\* table[...].head(n) for a table sorted by avg_time, descending: the index
\* sets the first n rows among `rows` can have
HeadChoices(table, rows, n) ==
    { L \in SUBSET rows :
        /\ Cardinality(L) = Min(n, Cardinality(rows))
        /\ \A x \in L, y \in rows \ L : table[x].avg_time >= table[y].avg_time }

SlowEndpointLimit == 5

SlowKeywordLimit == 3

SlowKeywordMs == 1000

\* a threshold of once the mean
SlowEndpointsOnceMean(es, st) ==
    HeadChoices(es, {g \in DOMAIN es : es[g].avg_time * st.count > st.total},
                SlowEndpointLimit)

\* endpoint_stats[endpoint_stats['avg_time'] > stats['avg_response_time'] * 2]
\* .head(5): avg_time > 2 * total / count, compared exactly (binary floating
\* point can differ from this only when the two sides are equal)
SlowEndpoints(es, st) ==
    HeadChoices(es, {g \in DOMAIN es : es[g].avg_time * st.count > 2 * st.total},
                SlowEndpointLimit)

\* keyword_stats[keyword_stats['avg_time_ms'] > 1000].head(3), when
\* keyword_stats is not empty
SlowKeywords(ks) ==
    HeadChoices(ks, {k \in DOMAIN ks : ks[k].avg_time_ms > SlowKeywordMs * Scale},
                SlowKeywordLimit)

\* stats = basic_statistics(df)
BasicStatistics ==
    /\ ppc = "loaded"
    /\ stats' = basic_statistics(df)
    /\ ppc' = "stats"
    /\ UNCHANGED <<df, endpoint_stats, keyword_stats, slow_endpoints, slow_keywords>>
    /\ UNCHANGED <<genVars, measVars, runVars, catVars>>

\* endpoint_stats = endpoint_analysis(df)
EndpointAnalysis ==
    /\ ppc = "stats"
    /\ endpoint_stats' \in endpoint_analysis(df)
    /\ ppc' = "endpoints"
    /\ UNCHANGED <<df, stats, keyword_stats, slow_endpoints, slow_keywords>>
    /\ UNCHANGED <<genVars, measVars, runVars, catVars>>

\* keyword_stats = keyword_analysis(df)
KeywordAnalysis ==
    /\ ppc = "endpoints"
    /\ keyword_stats' \in keyword_analysis(df)
    /\ ppc' = "keywords"
    /\ UNCHANGED <<df, stats, endpoint_stats, slow_endpoints, slow_keywords>>
    /\ UNCHANGED <<genVars, measVars, runVars, catVars>>

\* report = generate_report(...): the recommendation section; on an empty
\* table idxmax() raises and no report is returned
GenerateReport ==
    /\ ppc = "keywords"
    /\ IF df = <<>>
       THEN /\ ppc' = "failed"
            /\ UNCHANGED <<slow_endpoints, slow_keywords>>
       ELSE /\ ppc' = "reported"
            /\ slow_endpoints' \in SlowEndpoints(endpoint_stats, stats)
            /\ slow_keywords' \in SlowKeywords(keyword_stats)
    /\ UNCHANGED <<df, stats, endpoint_stats, keyword_stats>>
    /\ UNCHANGED <<genVars, measVars, runVars, catVars>>

\* The result tables the reporter is run on: for each URL below, one of the
\* lists of average_time texts beside it, as rows in this order.
Hi == "2.000"

ReportRows == <<
    << "http://localhost:8010/api/search/person?keywords=esteban",
       { <<>>, << Hi >>, << "0.001", "0.001", "0.000" >> } >>,
    << "http://localhost:8010/api/search/person?keywords=garcia",
       { <<>>, << Hi >> } >>,
    << "http://localhost:8010/api/search/works?keywords=ai",
       { <<>>, << Hi >> } >>,
    << "http://localhost:8010/api/apc/search?keywords=500",
       { <<>>, << Hi >> } >>,
    << "http://localhost:8010/api/person/A5105622035",
       { <<>>, << Hi >>, << "0.001", "0.001", "0.000" >> } >>,
    << "http://localhost:8010/api/apc/person/A5105622035",
       { <<>>, << Hi >> } >>,
    << "http://localhost:8010/api/affiliation/institution/01p9nak43/research/products",
       { <<>>, << Hi >> } >>,
    << "http://localhost:8010/api/person/A5112693177/research/news",
       { <<>>, << "0.000", "0.000", "0.000" >>,
         << "0.000", "0.000", "0.000", "0.000" >> } >>,
    << "http://localhost:8010/api/apc/affiliation/01p9nak43",
       { <<>>, << "0.000", "0.000", "0.000", "0.000" >>,
         << "0.001", "0.000", "0.000", "0.000" >> } >> >>

RECURSIVE ReportTables(_)
ReportTables(i) ==
    IF i > Len(ReportRows) THEN { <<>> }
    ELSE { [k \in 1..Len(ts) |-> CsvLine(<< ReportRows[i][1], ts[k] >>)] \o rest :
             ts \in ReportRows[i][2], rest \in ReportTables(i + 1) }

ReportInit ==
    /\ file \in {[exists |-> TRUE, lines |-> << HeaderLine >> \o t] : t \in ReportTables(1)}
    /\ runs = 0 /\ rpc = "idle" /\ ui = 0 /\ results = <<>> /\ succ = <<>>
    /\ answers = <<>>
    /\ written = <<>>

-----------------------------------------------------------------------------
(* categorize_endpoint applied to a path *)

PathTokens == {"search", "person", "affiliation", "apc", "works", "/"}

MaxTokens == 3

RECURSIVE Concat(_)
Concat(ss) == IF ss = <<>> THEN "" ELSE Head(ss) \o Concat(Tail(ss))

CatPaths == {Concat(ts) : ts \in UNION {[1..n -> PathTokens] : n \in 0..MaxTokens}}

CatInit == cpath \in CatPaths /\ ccat = <<>>

\* df['clean_endpoint'].apply(categorize_endpoint), one element
Categorize ==
    /\ ccat = <<>>
    /\ ccat' = << categorize_endpoint(cpath) >>
    /\ UNCHANGED <<cpath, genVars, measVars, runVars, repVars>>

-----------------------------------------------------------------------------
(* Specifications *)

GenIdle ==
    /\ templates = <<>> /\ gi = 0 /\ urls = <<>> /\ gpc = "returned"

MeasIdle ==
    /\ repetitions = 0 /\ mi = 0 /\ times = <<>> /\ attempts = <<>>
    /\ mret = None /\ mpc = "returned"

RunIdle ==
    /\ runs = 0 /\ rpc = "idle" /\ ui = 0 /\ results = <<>> /\ succ = <<>>
    /\ answers = <<>>
    /\ written = <<>> /\ file = NoFile

CatIdle == cpath = "" /\ ccat = <<>>

\* expand_endpoints on a template list
InitGen == GenInit /\ MeasIdle /\ RunIdle /\ RepInit /\ CatIdle

NextGen == ExpandStep \/ GenReturn

SpecGen == InitGen /\ [][NextGen]_vars

\* one call of measure_response_time
InitMeasure == MeasInit /\ GenIdle /\ RunIdle /\ RepInit /\ CatIdle

NextMeasure == Attempt \/ AttemptRaises \/ MeasReturn

SpecMeasure == InitMeasure /\ [][NextMeasure]_vars

\* categorize_endpoint on a path
InitCat == CatInit /\ GenIdle /\ MeasIdle /\ RunIdle /\ RepInit

NextCat == Categorize

SpecCat == InitCat /\ [][NextCat]_vars

\* the reporter on a result table
InitReport == ReportInit /\ GenIdle /\ MeasIdle /\ RepInit /\ CatIdle

NextReport ==
    LoadData \/ BasicStatistics \/ EndpointAnalysis \/ KeywordAnalysis \/ GenerateReport

SpecReport == InitReport /\ [][NextReport]_vars

\* sampler runs, one after the other, and the reporter loading their file
Init ==
    /\ RunInit /\ gi = 0 /\ gpc = "returned"
    /\ MeasIdle /\ RepInit /\ CatIdle

Next == StartRun \/ MeasureUrl \/ MeasureUrlRaises \/ WriteCsv \/ LoadData

Spec == Init /\ [][Next]_vars

-----------------------------------------------------------------------------
(* Properties of measure_response_time (SpecMeasure) *)

AllAttemptsFail ==
    \A i \in 1..Len(attempts) : attempts[i].kind \in RequestExceptions

\* C1: when every attempt fails with a request-level failure (Timeout,
\* ConnectionError or a non-network RequestException), every iteration makes
\* one request and no more (no retry), nothing is raised, and the call returns
\* None, not zero, after exactly `repetitions` requests.
C1_AllFailReturnsNone ==
    AllAttemptsFail =>
        /\ mpc # "raised"
        /\ Len(attempts) = mi
        /\ mi <= repetitions
        /\ times = <<>>
        /\ (mpc = "loop" /\ mi = repetitions => ENABLED MeasReturn)
        /\ (mpc = "returned" =>
              /\ Len(attempts) = repetitions
              /\ mret = None
              /\ mret # << 0, 1 >>)

C1_Witness ==
    /\ mpc = "returned"
    /\ repetitions >= 3
    /\ AllAttemptsFail
    /\ {attempts[i].kind : i \in 1..Len(attempts)} = RequestExceptions

RECURSIVE SuccessSum(_)
SuccessSum(as) ==
    IF as = <<>> THEN 0
    ELSE (IF Head(as).kind = "response" THEN Head(as).elapsed ELSE 0)
            + SuccessSum(Tail(as))

SuccessCount(as) == Cardinality({i \in 1..Len(as) : as[i].kind = "response"})

\* C2: a call that returns after at least one successful attempt returns the
\* sum of the durations of the successful attempts divided by their number;
\* failed attempts add nothing to the sum or to the divisor.
C2_MeanOfSuccesses ==
    (mpc = "returned" /\ SuccessCount(attempts) > 0) =>
        /\ mret # None
        /\ mret[2] > 0
        /\ mret[1] * SuccessCount(attempts) = SuccessSum(attempts) * mret[2]

C2_Witness ==
    /\ mpc = "returned"
    /\ repetitions = 3
    /\ SuccessCount(attempts) = 2
    /\ attempts[2].kind \in RequestExceptions
    /\ attempts[1].elapsed # attempts[3].elapsed
    /\ 2 * mret[1] = (attempts[1].elapsed + attempts[3].elapsed) * mret[2]

-----------------------------------------------------------------------------
(* Properties of the sampler runs (Spec) *)

RECURSIVE SuccessfulUrls(_, _)
SuccessfulUrls(us, sc) ==
    IF sc = <<>> THEN <<>>
    ELSE (IF Head(sc) THEN << Head(us) >> ELSE <<>>)
            \o SuccessfulUrls(Tail(us), Tail(sc))

\* C3: within a run, `results` holds exactly one record for each measured URL
\* that had a successful attempt and none for a URL whose attempts all failed,
\* in the order of the generated list; no record holds None or zero.
C3_OneRecordPerSuccessfulUrl ==
    /\ Len(succ) = ui
    /\ ui <= Len(urls)
    /\ [k \in 1..Len(results) |-> results[k].url]
          = SuccessfulUrls(SubSeq(urls, 1, ui), succ)
    /\ \A k \in 1..Len(results) :
          results[k].average_time # None /\ results[k].average_time[1] > 0

C3_Witness ==
    /\ rpc = "loop"
    /\ ui = Len(urls)
    /\ succ = << TRUE, FALSE, TRUE >>
    /\ Len(results) = 2
    /\ results[2].url = urls[3]

DataUrl(line) == ParseCsvLine(line)[1]

RunCompletes == rpc = "loop" /\ ui = Len(urls) /\ rpc' = "idle"

C4_FileShape ==
    /\ ~file.exists => file.lines = <<>> /\ written = <<>>
    /\ file.exists =>
          /\ Len(file.lines) = 1 + Len(written)
          /\ file.lines[1] = HeaderLine
          /\ \A i \in 2..Len(file.lines) : file.lines[i] # HeaderLine

C4_RunAppends ==
    /\ Len(file'.lines) >= Len(file.lines)
    /\ SubSeq(file'.lines, 1, Len(file.lines)) = file.lines
    /\ RunCompletes =>
          LET base == IF file.exists THEN Len(file.lines) ELSE 1
          IN  /\ file'.exists
              /\ Len(file'.lines) = base + Len(results)
              /\ \A k \in 1..Len(results) :
                    DataUrl(file'.lines[base + k]) = results[k].url

\* C4: starting with no file, the file exists after the first completed run
\* and then holds the header line exactly once, as its first line; every run
\* keeps the lines already there and adds one line per record after them
\* (also none, when every URL failed), so that the same url can occur in
\* several lines.
C4_HeaderOnceAppendOnly == [](C4_FileShape) /\ [][C4_RunAppends]_vars

C4_Witness ==
    /\ runs = 2
    /\ rpc = "idle"
    /\ \E i, j \in 2..Len(file.lines) :
          i < j /\ DataUrl(file.lines[i]) = DataUrl(file.lines[j])
    /\ Len(file.lines) > 1 + Len(results)

-----------------------------------------------------------------------------
(* Properties of expand_endpoints (SpecGen) *)

HasBoth(t) == Contains(t, "<affiliation_type>") /\ Contains(t, "<affiliation_id>")

OnlyPerson(t) ==
    /\ Contains(t, "<person_id>")
    /\ ~Contains(t, "<affiliation_type>")
    /\ ~Contains(t, "<affiliation_id>")

NoPlaceholder(t) ==
    /\ ~Contains(t, "<person_id>")
    /\ ~Contains(t, "<affiliation_type>")
    /\ ~Contains(t, "<affiliation_id>")

\* the number of URLs section 4.1 of the specification gives a template
ExpectedCount(t) ==
    IF HasBoth(t) THEN Len(AFFILIATION_TYPES) * 3
    ELSE IF Contains(t, "<affiliation_id>") THEN 3
    ELSE IF Contains(t, "<person_id>") THEN 3
    ELSE IF Contains(t, "<affiliation_type>") THEN Len(AFFILIATION_TYPES)
    ELSE 1

\* the number of URLs due before those of template i
RECURSIVE ExpectedOffset(_)
ExpectedOffset(i) ==
    IF i = 1 THEN 0 ELSE ExpectedOffset(i - 1) + ExpectedCount(templates[i - 1])

\* t with its occurrence of the placeholder ph replaced by v
Subst(t, ph, v) ==
    LET x == CHOOSE y \in 1..Len(t) : SubSeq(t, y, y + Len(ph) - 1) = ph
    IN  SubSeq(t, 1, x - 1) \o v \o SubSeq(t, x + Len(ph), Len(t))

\* C5: a template with both the affiliation-type and the affiliation-id
\* placeholder yields exactly |AFFILIATION_TYPES| x 3 URLs, one for each pair
\* of a type and one of the first three affiliation ids, in product order,
\* each the base URL followed by the template with both placeholders replaced.
C5_BothPlaceholders ==
    \A i \in 1..gi :
        HasBoth(templates[i]) =>
            LET off == ExpectedOffset(i)
            IN  /\ Len(urls) >= off + Len(AFFILIATION_TYPES) * 3
                /\ (i = gi => Len(urls) = off + Len(AFFILIATION_TYPES) * 3)
                /\ \A a \in 1..Len(AFFILIATION_TYPES), b \in 1..3 :
                      LET url == urls[off + (a - 1) * 3 + b]
                      IN  /\ url = BASE_URL \o
                                Subst(Subst(templates[i], "<affiliation_type>",
                                            AFFILIATION_TYPES[a]),
                                      "<affiliation_id>", AFFILIATION_IDS[b])
                          /\ ~Contains(url, "<affiliation_type>")
                          /\ ~Contains(url, "<affiliation_id>")

C5_Witness ==
    /\ gpc = "returned"
    /\ Len(templates) = 2
    /\ HasBoth(templates[2])
    /\ ~HasBoth(templates[1])
    /\ urls[Len(urls)] =
          "http://localhost:8010/api/affiliation/institution/027nnzv91/research/products"

\* C6: a template with the person-id placeholder only yields exactly 3 URLs,
\* the template with the first, second and third entry of PERSON_IDS put in,
\* in that order, and they stand after the URLs of the templates declared
\* before it and before those of the templates declared after it.
C6_PersonOnly ==
    \A i \in 1..gi :
        OnlyPerson(templates[i]) =>
            LET off == ExpectedOffset(i)
            IN  /\ Len(urls) >= off + 3
                /\ (i = gi => Len(urls) = off + 3)
                /\ \A b \in 1..3 :
                      /\ urls[off + b] =
                            BASE_URL \o Subst(templates[i], "<person_id>", PERSON_IDS[b])
                      /\ ~Contains(urls[off + b], "<person_id>")

C6_Witness ==
    /\ gpc = "returned"
    /\ templates = RAW_ENDPOINTS
    /\ urls[11] = "http://localhost:8010/api/person/A5105622035"
    /\ urls[12] = "http://localhost:8010/api/person/A5112693177"
    /\ urls[13] = "http://localhost:8010/api/person/0000000347185957"
    /\ Len(urls) = 22

\* C7: a template without placeholders that is a key of KEYWORDS yields, for
\* every draw of random.choice, exactly one URL: base URL + template +
\* "?keywords=" + v with v in the template's keyword list; a template without
\* placeholders that is no key yields exactly one URL, base URL + template.
C7_KeywordOrPlain ==
    \A i \in 1..gi :
        NoPlaceholder(templates[i]) =>
            LET off == ExpectedOffset(i)
                t   == templates[i]
            IN  /\ Len(urls) >= off + 1
                /\ (i = gi => Len(urls) = off + 1)
                /\ IF t \in DOMAIN KEYWORDS
                   THEN \E j \in 1..Len(KEYWORDS[t]) :
                           urls[off + 1] = BASE_URL \o t \o "?keywords=" \o KEYWORDS[t][j]
                   ELSE urls[off + 1] = BASE_URL \o t

C7_Witness ==
    /\ gpc = "returned"
    /\ templates = << "/api/apc", "/api/search/works" >>
    /\ urls = << "http://localhost:8010/api/apc",
                 "http://localhost:8010/api/search/works?keywords=salud" >>

-----------------------------------------------------------------------------
(* Properties of categorize_endpoint (SpecCat) *)

\* the first of the names, in the order given, that occurs in path
RECURSIVE FirstOccurring(_, _)
FirstOccurring(names, path) ==
    IF names = <<>> THEN "other"
    ELSE IF Contains(path, Head(names)) THEN Head(names)
         ELSE FirstOccurring(Tail(names), path)

\* C8 as stated: the category is the first of search, person, affiliation,
\* apc that occurs in the path, and other when none occurs.
C8_PriorityAsStated ==
    ccat # <<>> =>
        ccat = << FirstOccurring(<< "search", "person", "affiliation", "apc" >>, cpath) >>

\* C8 (amended): the category is the first of search, apc, person,
\* affiliation that occurs in the path, and other when none occurs; a path
\* with both search and person is search.
C8_PriorityApcFirst ==
    ccat # <<>> =>
        /\ ccat = << FirstOccurring(<< "search", "apc", "person", "affiliation" >>, cpath) >>
        /\ (Contains(cpath, "search") /\ Contains(cpath, "person") => ccat = << "search" >>)

C8_Witness ==
    /\ ccat = << "apc" >>
    /\ Contains(cpath, "person")
    /\ Contains(cpath, "affiliation")

-----------------------------------------------------------------------------
(* The round trip through the file (Spec) *)

\* base is path without its query string
IsBaseOf(base, path) ==
    /\ ~Contains(base, "?")
    /\ \/ base = path
       \/ /\ Len(path) > Len(base)
          /\ SubSeq(path, 1, Len(base) + 1) = base \o "?"

\* C9: every record written comes back from load_and_clean_data as one row,
\* in order: its url is the record's, clean_endpoint is the url without the
\* base URL and "/api/", response_time_ms is 1000 times the average_time
\* stored in the file (the record's mean to the nearest millisecond),
\* base_endpoint is clean_endpoint without its query string; rows with equal
\* clean_endpoint and response_time_ms have equal stored url and time.
C9_RoundTrip ==
    ppc = "loaded" =>
        /\ Len(df) = Len(written)
        /\ \A k \in 1..Len(df) :
              /\ df[k].url = written[k].url
              /\ df[k].url = BASE_URL \o "/api/" \o df[k].clean_endpoint
              /\ \E ms \in MillisChoices(written[k].average_time) :
                    /\ file.lines[k + 1] = df[k].url \o "," \o Format3f(ms)
                    /\ df[k].average_time * 1000 = ms * Scale
                    /\ df[k].response_time_ms = ms * Scale
              /\ IsBaseOf(df[k].base_endpoint, df[k].clean_endpoint)
        /\ \A j, k \in 1..Len(df) :
              (/\ df[j].clean_endpoint = df[k].clean_endpoint
               /\ df[j].response_time_ms = df[k].response_time_ms)
                  => file.lines[j + 1] = file.lines[k + 1]

C9_Witness ==
    /\ ppc = "loaded"
    /\ Len(df) = 2
    /\ df[1].clean_endpoint = "search/person?keywords=jaime"
    /\ df[1].base_endpoint = "search/person"
    /\ df[1].response_time_ms = 3 * Scale
    /\ df[2].response_time_ms = 2 * Scale
    /\ written[1].average_time = << 2500, 1 >>

-----------------------------------------------------------------------------
(* Properties of the recommendation section (SpecReport) *)

EndpointGroups == {df[k].base_endpoint : k \in 1..Len(df)}

KeywordGroups == {df[k].keyword : k \in 1..Len(df)} \ { <<>> }

EndpointTotal(g) == GroupSum(df, "base_endpoint", g, "average_time")

EndpointRows(g) == GroupCount(df, "base_endpoint", g)

KeywordTotalMs(k) == GroupSum(df, "keyword", k, "response_time_ms")

KeywordTotal(k) == GroupSum(df, "keyword", k, "average_time")

KeywordRows(k) == GroupCount(df, "keyword", k)

GlobalTotal == Sum([k \in 1..Len(df) |-> df[k].average_time])

\* r is total / n rounded to the nearest integer
IsRounded(r, total, n) == 2 * (r * n - total) <= n /\ 2 * (total - r * n) <= n

C10_RoundingLists ==
    /\ ppc = "reported"
    /\ \E g \in slow_endpoints :
          EndpointTotal(g) * Len(df) <= 2 * GlobalTotal * EndpointRows(g)

-----------------------------------------------------------------------------
(* Properties of the status code of a response (Spec) *)

\* every response among the outcomes carries an error status, and there is one
ErrorOnly(outs) ==
    /\ SuccessCount(outs) > 0
    /\ \A i \in 1..Len(outs) : outs[i].kind = "response" => outs[i].status >= 400

\* C11: an attempt counts as successful whenever the GET returns a response,
\* whatever its status code: every URL measured in a run that got at least
\* one response, of any status, has a record in `results` whose average_time
\* is the sum of the durations of all its responses divided by their number,
\* so a URL answered with error statuses only has a record like one answered
\* with status 200.
C11_ErrorStatusCounts ==
    rpc = "loop" =>
    /\ Len(answers) = ui
    /\ \A k \in 1..Len(answers) :
          SuccessCount(answers[k]) > 0 =>
              \E j \in 1..Len(results) :
                  /\ results[j].url = urls[k]
                  /\ results[j].average_time # None
                  /\ results[j].average_time[1] * SuccessCount(answers[k])
                        = SuccessSum(answers[k]) * results[j].average_time[2]

C11_Witness ==
    /\ rpc = "loop"
    /\ ui = Len(urls)
    /\ \E k \in 1..Len(answers) :
          /\ ErrorOnly(answers[k])
          /\ \E j \in 1..Len(results) : results[j].url = urls[k]
    /\ \E k \in 1..Len(answers) :
          /\ SuccessCount(answers[k]) > 0
          /\ \A i \in 1..Len(answers[k]) : answers[k][i].status < 400

====
